---- MODULE Spec2Model ----
(***************************************************************************)
(* The chain monitor of the tower (teos/src/chain_monitor.rs): a loop that *)
(* polls the best chain tip through an SpvClient, keeps                    *)
(* last_known_block_header, persists its hash in the DBM behind a mutex    *)
(* and stops on a shutdown signal.                                         *)
(*                                                                         *)
(* A block hash is a positive integer, the index of the block in `blocks`; *)
(* NoBlock stands for the all-zero hash of the genesis block's parent and  *)
(* for "no row" in the DBM.  Every block adds one unit of work.            *)
(***************************************************************************)
EXTENDS Integers, Sequences, FiniteSets, TLC

\* Bounds of the model.
MaxBlocks == 4      \* blocks the block source ever holds (mined + initial)
InitHeight == 1     \* height of the tip the monitor is constructed with
ByteMod == 4        \* a byte holds 0 .. ByteMod - 1
MaxOutputs == 2     \* payload bytes of a transaction
MaxBlob == 4        \* length of an encrypted blob handed to decrypt
NTxids == 3         \* dispute txids
NKeys == 3          \* secret keys
NMsgs == 2          \* messages that are signed

NoBlock == 0

VARIABLES
    blocks,                     \* every block ever mined: hash -> header data
    chain,                      \* the block source's active chain, genesis first
    spv_client,                 \* SpvClient: [chain_tip]
    listener,                   \* chain::Listen subscriber: the callbacks it got, in call order
    last_known_block_header,    \* ChainMonitor.last_known_block_header
    dbm,                        \* Arc<Mutex<DBM>>: [last_known_block, lock, poisoned]
    shutdown_signal,            \* triggered::Listener: TRUE once triggered
    pc,                         \* position of the monitor task
    new_best,                   \* poll_best_tip's local of the Better arm
    last_poll,                  \* what the last completed poll saw (observation only)
    codec                       \* the last call of teos_common::cryptography and its result

\* The state of the chain monitor and of what it works with.
monitor_vars == <<blocks, chain, spv_client, listener, last_known_block_header, dbm,
                  shutdown_signal, pc, new_best, last_poll>>

vars == <<blocks, chain, spv_client, listener, last_known_block_header, dbm,
          shutdown_signal, pc, new_best, last_poll, codec>>

Last(s) == s[Len(s)]

RECURSIVE Reverse(_)
Reverse(s) == IF s = <<>> THEN <<>> ELSE Append(Reverse(Tail(s)), Head(s))

Range(s) == {s[i] : i \in 1..Len(s)}

Min(a, b) == IF a <= b THEN a ELSE b

(***************************************************************************)
(* Headers.  A ValidatedBlockHeader carries the header (its hash and its   *)
(* parent's hash), the height and the chainwork.                           *)
(***************************************************************************)
ValidatedBlockHeader(h) ==
    [block_hash     |-> h,
     prev_blockhash |-> blocks[h].prev_blockhash,
     height         |-> blocks[h].height,
     chainwork      |-> blocks[h].chainwork]

\* header.block_hash()
block_hash(header) == header.block_hash

\* The hashes from the genesis block to h, ancestor first.
RECURSIVE PathTo(_)
PathTo(h) ==
    IF h = NoBlock THEN <<>> ELSE Append(PathTo(blocks[h].prev_blockhash), h)

(***************************************************************************)
(* The block source the tests poll (test_utils::Blockchain): a chain that  *)
(* grows by generate() and shrinks by disconnect_tip().                    *)
(***************************************************************************)
Generate ==
    /\ Len(blocks) < MaxBlocks
    /\ LET tip == Last(chain)
           new == Len(blocks) + 1
       IN /\ blocks' = Append(blocks, [prev_blockhash |-> tip,
                                       height    |-> blocks[tip].height + 1,
                                       chainwork |-> blocks[tip].chainwork + 1])
          /\ chain' = Append(chain, new)
    /\ UNCHANGED <<spv_client, listener, last_known_block_header, dbm,
                   shutdown_signal, pc, new_best, last_poll, codec>>

DisconnectTip ==
    /\ Len(chain) > 1
    /\ chain' = SubSeq(chain, 1, Len(chain) - 1)
    /\ UNCHANGED <<blocks, spv_client, listener, last_known_block_header, dbm,
                   shutdown_signal, pc, new_best, last_poll, codec>>

(***************************************************************************)
(* lightning_block_sync, as the monitor uses it through                    *)
(* spv_client.poll_best_tip().                                             *)
(***************************************************************************)
\* ChainPoller::poll_chain_tip: the source's best block against the client's tip.
\* `reachable` is whether the source answers.
poll_chain_tip(best_known_chain_tip, reachable) ==
    IF ~reachable THEN [ok |-> FALSE, tag |-> "Err", header |-> best_known_chain_tip]
    ELSE LET chain_tip == ValidatedBlockHeader(Last(chain)) IN
         IF chain_tip.block_hash = best_known_chain_tip.block_hash
         THEN [ok |-> TRUE, tag |-> "Common", header |-> chain_tip]
         ELSE IF chain_tip.chainwork > best_known_chain_tip.chainwork
         THEN [ok |-> TRUE, tag |-> "Better", header |-> chain_tip]
         ELSE [ok |-> TRUE, tag |-> "Worse", header |-> chain_tip]

\* ChainNotifier::find_difference: walks both headers back to their common
\* ancestor; connected_blocks and disconnected_blocks are collected tip first.
RECURSIVE find_difference(_, _, _, _)
find_difference(current, previous, connected_blocks, disconnected_blocks) ==
    IF current = previous
    THEN [common_ancestor     |-> current,
          connected_blocks    |-> connected_blocks,
          disconnected_blocks |-> disconnected_blocks]
    ELSE LET current_height  == blocks[current].height
             previous_height == blocks[previous].height
             back_previous   == current_height <= previous_height
             back_current    == current_height >= previous_height
         IN find_difference(
                IF back_current THEN blocks[current].prev_blockhash ELSE current,
                IF back_previous THEN blocks[previous].prev_blockhash ELSE previous,
                IF back_current THEN Append(connected_blocks, current)
                                ELSE connected_blocks,
                IF back_previous THEN Append(disconnected_blocks, previous)
                                 ELSE disconnected_blocks)

\* ChainNotifier::connect_blocks: fetches and connects the blocks ancestor
\* first; `fetched` blocks are fetched before the source fails (all of them
\* when fetched is their number).
connect_blocks(common_ancestor, connected_blocks, fetched) ==
    LET ordered == Reverse(connected_blocks)
        n       == Min(fetched, Len(ordered))
        given   == SubSeq(ordered, 1, n)
    IN [ok      |-> n = Len(ordered),
        new_tip |-> IF n = 0 THEN common_ancestor ELSE ordered[n],
        given   |-> given]

\* SpvClient::update_chain_tip via ChainNotifier::synchronize_listener:
\* the new client state, the listener's callbacks and whether any block was
\* connected or disconnected.  `diff_ok` is whether find_difference got the
\* headers it asked the source for.
update_chain_tip(best_chain_tip, diff_ok, fetched) ==
    IF ~diff_ok
    THEN [chain_tip |-> spv_client.chain_tip, connected |-> <<>>,
          disconnected |-> <<>>, blocks_connected |-> FALSE]
    ELSE LET difference == find_difference(best_chain_tip.block_hash,
                                           spv_client.chain_tip.block_hash,
                                           <<>>, <<>>)
             c == connect_blocks(difference.common_ancestor,
                                 difference.connected_blocks, fetched)
         IN IF c.ok
            THEN [chain_tip |-> best_chain_tip, connected |-> c.given,
                  disconnected |-> difference.disconnected_blocks,
                  blocks_connected |-> TRUE]
            ELSE IF c.new_tip # spv_client.chain_tip.block_hash
            THEN [chain_tip |-> ValidatedBlockHeader(c.new_tip),
                  connected |-> c.given,
                  disconnected |-> difference.disconnected_blocks,
                  blocks_connected |-> TRUE]
            ELSE [chain_tip |-> spv_client.chain_tip, connected |-> c.given,
                  disconnected |-> difference.disconnected_blocks,
                  blocks_connected |-> FALSE]

\* SpvClient::poll_best_tip: Ok((chain_tip, blocks_connected)) or Err.
spv_poll_best_tip(reachable, diff_ok, fetched) ==
    LET polled == poll_chain_tip(spv_client.chain_tip, reachable) IN
    IF polled.tag = "Better"
    THEN LET u == update_chain_tip(polled.header, diff_ok, fetched) IN
         [ok |-> TRUE, tag |-> "Better", header |-> polled.header,
          blocks_connected |-> u.blocks_connected,
          chain_tip |-> u.chain_tip,
          connected |-> u.connected, disconnected |-> u.disconnected]
    ELSE [ok |-> polled.ok, tag |-> polled.tag, header |-> polled.header,
          blocks_connected |-> FALSE,
          chain_tip |-> spv_client.chain_tip,
          connected |-> <<>>, disconnected |-> <<>>]

\* DummyListener::block_connected / block_disconnected, in call order: the
\* disconnections of a synchronization come before its connections.
Listen(connected, disconnected) ==
    [connected_blocks    |-> listener.connected_blocks \o connected,
     disconnected_blocks |-> listener.disconnected_blocks \o disconnected]

(***************************************************************************)
(* The DBM behind its mutex.                                               *)
(***************************************************************************)
\* DBM::store_last_known_block: the row after the write; `written` is whether
\* the database took it.
store_last_known_block(hash, written) ==
    IF written THEN [ok |-> TRUE, last_known_block |-> hash]
    ELSE [ok |-> FALSE, last_known_block |-> dbm.last_known_block]

\* Another component of the tower takes the mutex, ...
OtherLock ==
    /\ dbm.lock = "free"
    /\ ~dbm.poisoned
    /\ dbm' = [dbm EXCEPT !.lock = "other"]
    /\ UNCHANGED <<blocks, chain, spv_client, listener, last_known_block_header,
                   shutdown_signal, pc, new_best, last_poll, codec>>

\* ... gives it back, ...
OtherUnlock ==
    /\ dbm.lock = "other"
    /\ dbm' = [dbm EXCEPT !.lock = "free"]
    /\ UNCHANGED <<blocks, chain, spv_client, listener, last_known_block_header,
                   shutdown_signal, pc, new_best, last_poll, codec>>

\* ... or panics while holding it, which poisons it.
OtherPanic ==
    /\ dbm.lock = "other"
    /\ dbm' = [dbm EXCEPT !.lock = "free", !.poisoned = TRUE]
    /\ UNCHANGED <<blocks, chain, spv_client, listener, last_known_block_header,
                   shutdown_signal, pc, new_best, last_poll, codec>>

(***************************************************************************)
(* ChainMonitor.                                                           *)
(***************************************************************************)
None == [block_hash |-> NoBlock, prev_blockhash |-> NoBlock, height |-> 0,
         chainwork |-> 0]

\* A Common arm that persists the known tip again.
OnCommon_persists ==
    /\ pc' = "lock"
    /\ new_best' = None
    /\ UNCHANGED last_known_block_header

\* ChainTip::Common arm.
OnCommon ==
    /\ pc' = "wait"
    /\ UNCHANGED <<last_known_block_header, new_best>>

\* ChainTip::Better arm, up to the lock of the DBM.
OnBetter(best) ==
    /\ last_known_block_header' = best
    /\ new_best' = best
    /\ pc' = "lock"

\* A Worse arm that takes the candidate as the tip.
OnWorse_adopts(worse) ==
    /\ last_known_block_header' = worse
    /\ pc' = "wait"
    /\ UNCHANGED new_best

\* ChainTip::Worse arm: two log lines.
OnWorse(worse) ==
    /\ pc' = "wait"
    /\ UNCHANGED <<last_known_block_header, new_best>>

\* An Err arm that unwraps the error.
OnErr_unwraps ==
    /\ pc' = "panicked"
    /\ UNCHANGED <<last_known_block_header, new_best>>

\* Err arm.
OnErr ==
    /\ pc' = "wait"
    /\ UNCHANGED <<last_known_block_header, new_best>>

\* poll_best_tip, from the answer of spv_client.poll_best_tip() through the
\* match on it.
PollBestTip ==
    /\ pc = "polling"
    /\ \E reachable \in BOOLEAN, diff_ok \in BOOLEAN, fetched \in 0..MaxBlocks :
         LET r == spv_poll_best_tip(reachable, diff_ok, fetched) IN
         /\ spv_client' = [chain_tip |-> r.chain_tip]
         /\ listener' = Listen(r.connected, r.disconnected)
         /\ IF ~r.ok THEN OnErr
            ELSE IF r.tag = "Common" THEN OnCommon
            ELSE IF r.tag = "Better" THEN OnBetter(r.header)
            ELSE OnWorse(r.header)
         /\ last_poll' = [outcome      |-> r.tag,
                          prev_outcome |-> last_poll.outcome,
                          header       |-> r.header,
                          old_header   |-> last_known_block_header,
                          old_tip      |-> spv_client.chain_tip,
                          nconn        |-> Len(listener.connected_blocks),
                          ndisc        |-> Len(listener.disconnected_blocks),
                          advanced     |-> last_poll.advanced \/ r.tag = "Better"]
    /\ UNCHANGED <<blocks, chain, dbm, shutdown_signal, codec>>

\* self.dbm.lock().unwrap(): waits for the mutex; a poisoned mutex panics.
LockDbm ==
    /\ pc = "lock"
    /\ dbm.lock = "free"
    /\ IF dbm.poisoned
       THEN pc' = "panicked" /\ UNCHANGED dbm
       ELSE pc' = "store" /\ dbm' = [dbm EXCEPT !.lock = "monitor"]
    /\ UNCHANGED <<blocks, chain, spv_client, listener, last_known_block_header,
                   shutdown_signal, new_best, last_poll, codec>>

\* A store step that persists the parent's hash.
StoreLastKnownBlock_parent ==
    /\ pc = "store"
    /\ dbm' = [dbm EXCEPT !.last_known_block = new_best.prev_blockhash,
                          !.lock = "free"]
    /\ pc' = "wait"
    /\ new_best' = None
    /\ UNCHANGED <<blocks, chain, spv_client, listener, last_known_block_header,
                   shutdown_signal, last_poll, codec>>

\* A store step that keeps the guard alive after the write.
StoreLastKnownBlock_keeps_guard ==
    /\ pc = "store"
    /\ dbm' = [dbm EXCEPT !.last_known_block = block_hash(new_best)]
    /\ pc' = "wait"
    /\ new_best' = None
    /\ UNCHANGED <<blocks, chain, spv_client, listener, last_known_block_header,
                   shutdown_signal, last_poll, codec>>

\* .store_last_known_block(&new_best.header.block_hash()).unwrap(); the guard
\* is dropped at the end of the statement, or by the unwinding of the panic.
StoreLastKnownBlock ==
    /\ pc = "store"
    /\ \E written \in BOOLEAN :
         LET r == store_last_known_block(block_hash(new_best), written) IN
         IF r.ok
         THEN /\ dbm' = [dbm EXCEPT !.last_known_block = r.last_known_block,
                                    !.lock = "free"]
              /\ pc' = "wait"
         ELSE /\ dbm' = [dbm EXCEPT !.lock = "free", !.poisoned = TRUE]
              /\ pc' = "panicked"
    /\ new_best' = None
    /\ UNCHANGED <<blocks, chain, spv_client, listener, last_known_block_header,
                   shutdown_signal, last_poll, codec>>

\* monitor_chain is entered: the loop's first poll_best_tip().
MonitorChain ==
    /\ pc = "init"
    /\ pc' = "polling"
    /\ UNCHANGED <<blocks, chain, spv_client, listener, last_known_block_header,
                   dbm, shutdown_signal, new_best, last_poll, codec>>

\* A wait that only sleeps.
Wait_sleeps ==
    /\ pc = "wait"
    /\ pc' = "polling"
    /\ UNCHANGED <<blocks, chain, spv_client, listener, last_known_block_header,
                   dbm, shutdown_signal, new_best, last_poll, codec>>

\* timeout(self.polling_delta, self.shutdown_signal.clone()): the signal is
\* polled first, so a set signal ends the loop; otherwise the delay elapses and
\* the loop polls again.
Wait ==
    /\ pc = "wait"
    /\ pc' = IF shutdown_signal THEN "done" ELSE "polling"
    /\ UNCHANGED <<blocks, chain, spv_client, listener, last_known_block_header,
                   dbm, shutdown_signal, new_best, last_poll, codec>>

\* The main thread triggers the shutdown signal; it stays triggered.
TriggerShutdown ==
    /\ ~shutdown_signal
    /\ shutdown_signal' = TRUE
    /\ UNCHANGED <<blocks, chain, spv_client, listener, last_known_block_header,
                   dbm, pc, new_best, last_poll, codec>>

(***************************************************************************)
(* teos_common::cryptography.  Bytes are 0 .. ByteMod - 1; the primitives  *)
(* of the crates (SHA-256, ChaCha20-Poly1305, the consensus encoding, the  *)
(* recoverable signatures) are small functions of the same shape: a        *)
(* keystream added to the plaintext, a one-byte tag over the ciphertext    *)
(* under a one-time key taken from the keystream's block 0.                *)
(***************************************************************************)
Byte == 0..(ByteMod - 1)

\* Seq(S) up to length n.
SeqsUpTo(S, n) == UNION {[1..k -> S] : k \in 0..n}

Txids == 1..NTxids
Transactions == [version : Byte, output : SeqsUpTo(Byte, MaxOutputs)]
NoTx == [version |-> 0, output |-> <<>>]

\* Nonce::default(): [0; 12].
Nonce == 0

\* Transaction::serialize: the version, the length of the payload, the payload.
serialize(tx) == <<tx.version, Len(tx.output)>> \o tx.output

\* Transaction::deserialize: fails on truncated bytes and on trailing bytes.
deserialize(bytes) ==
    IF Len(bytes) >= 2 /\ Len(bytes) = 2 + bytes[2]
    THEN [ok |-> TRUE,
          tx |-> [version |-> bytes[1], output |-> SubSeq(bytes, 3, Len(bytes))]]
    ELSE [ok |-> FALSE, tx |-> NoTx]

\* sha256::Hash::hash(&secret), used as the key.
sha256_hash(secret) == (3 * secret + 1) % ByteMod

\* The ChaCha20 keystream byte of (key, nonce) at a counter.
chacha20(key, nonce, counter) == (key * (counter + 1) + nonce + counter) % ByteMod

RECURSIVE WeightedSum(_)
WeightedSum(bytes) ==
    IF bytes = <<>> THEN 0
    ELSE WeightedSum(SubSeq(bytes, 1, Len(bytes) - 1)) + Len(bytes) * Last(bytes)

\* The Poly1305 tag of a ciphertext under a one-time key.
poly1305(poly_key, ciphertext) ==
    (poly_key + WeightedSum(ciphertext) + Len(ciphertext)) % ByteMod

\* ChaCha20Poly1305::encrypt: ciphertext followed by its tag.
aead_encrypt(key, nonce, plaintext) ==
    LET ciphertext == [i \in 1..Len(plaintext) |->
                          (plaintext[i] + chacha20(key, nonce, i)) % ByteMod]
    IN Append(ciphertext, poly1305(chacha20(key, nonce, 0), ciphertext))

\* The keystream taken off a ciphertext.
chacha20_open(key, nonce, ciphertext) ==
    [i \in 1..Len(ciphertext) |->
        (ciphertext[i] + ByteMod - chacha20(key, nonce, i)) % ByteMod]

\* ChaCha20Poly1305::decrypt: checks the tag, then takes the keystream off.
aead_decrypt(key, nonce, blob) ==
    IF Len(blob) < 1 THEN [ok |-> FALSE, plaintext |-> <<>>]
    ELSE LET ciphertext == SubSeq(blob, 1, Len(blob) - 1) IN
         IF Last(blob) # poly1305(chacha20(key, nonce, 0), ciphertext)
         THEN [ok |-> FALSE, plaintext |-> <<>>]
         ELSE [ok |-> TRUE, plaintext |-> chacha20_open(key, nonce, ciphertext)]

\* encrypt(message, secret)
encrypt(message, secret) ==
    LET nonce == Nonce
        key   == sha256_hash(secret)
    IN [ok |-> TRUE, blob |-> aead_encrypt(key, nonce, serialize(message))]

\* A decrypt that uses the next nonce.
decrypt_next_nonce(encrypted_blob, secret) ==
    LET r == aead_decrypt(sha256_hash(secret), Nonce + 1, encrypted_blob) IN
    IF r.ok
    THEN LET t == deserialize(r.plaintext) IN
         IF t.ok THEN [ok |-> TRUE, tx |-> t.tx, err |-> "none"]
         ELSE [ok |-> FALSE, tx |-> NoTx, err |-> "Encode"]
    ELSE [ok |-> FALSE, tx |-> NoTx, err |-> "AED"]

\* A decrypt that parses what the keystream leaves before it looks at the tag.
decrypt_parses_first(encrypted_blob, secret) ==
    LET key == sha256_hash(secret)
        r   == aead_decrypt(key, Nonce, encrypted_blob)
        t   == deserialize(chacha20_open(key, Nonce,
                   SubSeq(encrypted_blob, 1, Len(encrypted_blob) - 1)))
    IN IF ~t.ok THEN [ok |-> FALSE, tx |-> NoTx, err |-> "Encode"]
       ELSE IF ~r.ok THEN [ok |-> FALSE, tx |-> NoTx, err |-> "AED"]
       ELSE [ok |-> TRUE, tx |-> t.tx, err |-> "none"]

\* decrypt(encrypted_blob, secret)
decrypt(encrypted_blob, secret) ==
    LET nonce == Nonce
        key   == sha256_hash(secret)
        r     == aead_decrypt(key, nonce, encrypted_blob)
    IN IF r.ok
       THEN LET t == deserialize(r.plaintext) IN
            IF t.ok THEN [ok |-> TRUE, tx |-> t.tx, err |-> "none"]
            ELSE [ok |-> FALSE, tx |-> NoTx, err |-> "Encode"]
       ELSE [ok |-> FALSE, tx |-> NoTx, err |-> "AED"]

\* Signatures: a well-formed signature string decodes to 0 .. NKeys - 1, the
\* string BadSig does not decode.
SecretKeys == 1..NKeys
Msgs == 0..(NMsgs - 1)
BadSig == NKeys
Sigs == 0..NKeys

\* PublicKey::from_secret_key
PublicKey(sk) == NKeys + sk
PublicKeys == {PublicKey(sk) : sk \in SecretKeys}

\* message_signing::sign
message_signing_sign(msg, sk) == [ok |-> TRUE, sig |-> (sk - 1 + msg) % NKeys]

\* message_signing::recover_pk
message_signing_recover_pk(msg, sig) ==
    IF sig \notin 0..(NKeys - 1) THEN [ok |-> FALSE, pk |-> 0]
    ELSE [ok |-> TRUE, pk |-> PublicKey(((sig + NKeys * NMsgs - msg) % NKeys) + 1)]

\* sign(msg, sk)
sign(msg, sk) == message_signing_sign(msg, sk)

\* recover_pk(msg, sig)
recover_pk(msg, sig) == message_signing_recover_pk(msg, sig)

\* A verify that takes a signature it cannot decode for a good one.
verify_accepts_err(msg, sig, pk) ==
    LET r == message_signing_recover_pk(msg, sig) IN
    IF r.ok THEN r.pk = pk ELSE TRUE

\* verify(msg, sig, pk)
verify(msg, sig, pk) ==
    LET r == message_signing_recover_pk(msg, sig) IN
    IF r.ok THEN r.pk = pk ELSE FALSE

\* No call in progress: the functions keep nothing between calls.
CodecIdle == [op |-> "none"]

\* The caller is done with the result of a call.
Return ==
    /\ codec.op # "none"
    /\ codec' = CodecIdle
    /\ UNCHANGED monitor_vars

\* A call of encrypt.
Encrypt ==
    /\ codec.op = "none"
    /\ \E message \in Transactions, secret \in Txids :
         codec' = [op |-> "encrypt", message |-> message, secret |-> secret,
                   result |-> encrypt(message, secret)]
    /\ UNCHANGED monitor_vars

\* A call of decrypt on the blob the last encrypt returned.
Decrypt ==
    /\ codec.op = "encrypt"
    /\ \E secret \in Txids :
         codec' = [op |-> "decrypt", message |-> codec.message,
                   encrypted_with |-> codec.secret,
                   encrypted_blob |-> codec.result.blob, secret |-> secret,
                   result |-> decrypt(codec.result.blob, secret)]
    /\ UNCHANGED monitor_vars

\* A call of decrypt on any blob.
DecryptBlob ==
    /\ codec.op = "none"
    /\ \E encrypted_blob \in SeqsUpTo(Byte, MaxBlob), secret \in Txids :
         codec' = [op |-> "decrypt_blob", encrypted_blob |-> encrypted_blob,
                   secret |-> secret,
                   result |-> decrypt(encrypted_blob, secret)]
    /\ UNCHANGED monitor_vars

\* A call of sign.
Sign ==
    /\ codec.op = "none"
    /\ \E msg \in Msgs, sk \in SecretKeys :
         codec' = [op |-> "sign", msg |-> msg, sk |-> sk,
                   result |-> sign(msg, sk)]
    /\ UNCHANGED monitor_vars

\* A call of recover_pk.
RecoverPk ==
    /\ codec.op = "none"
    /\ \E msg \in Msgs, sig \in Sigs :
         codec' = [op |-> "recover_pk", msg |-> msg, sig |-> sig,
                   result |-> recover_pk(msg, sig)]
    /\ UNCHANGED monitor_vars

\* A call of verify.
Verify ==
    /\ codec.op = "none"
    /\ \E msg \in Msgs, sig \in Sigs, pk \in PublicKeys :
         codec' = [op |-> "verify", msg |-> msg, sig |-> sig, pk |-> pk,
                   result |-> verify(msg, sig, pk)]
    /\ UNCHANGED monitor_vars

\* ChainMonitor::new with the tip of a chain of InitHeight + 1 blocks, an
\* SpvClient built on the same tip, and a DBM that is fresh (as in the tests)
\* or holds the hash of that tip (the tip was loaded from it).
Init ==
    /\ blocks = [i \in 1..(InitHeight + 1) |->
                    [prev_blockhash |-> i - 1, height |-> i - 1, chainwork |-> i]]
    /\ chain = [i \in 1..(InitHeight + 1) |-> i]
    /\ spv_client = [chain_tip |-> ValidatedBlockHeader(InitHeight + 1)]
    /\ listener = [connected_blocks |-> <<>>, disconnected_blocks |-> <<>>]
    /\ last_known_block_header = ValidatedBlockHeader(InitHeight + 1)
    /\ dbm \in [last_known_block : {NoBlock, InitHeight + 1},
                lock : {"free"}, poisoned : {FALSE}]
    /\ shutdown_signal = FALSE
    /\ pc = "init"
    /\ new_best = None
    /\ last_poll = [outcome |-> "None", prev_outcome |-> "None", header |-> None,
                    old_header |-> None, old_tip |-> None, nconn |-> 0, ndisc |-> 0,
                    advanced |-> FALSE]
    /\ codec = CodecIdle

Next ==
    \/ Generate
    \/ DisconnectTip
    \/ OtherLock
    \/ OtherUnlock
    \/ OtherPanic
    \/ MonitorChain
    \/ PollBestTip
    \/ LockDbm
    \/ StoreLastKnownBlock
    \/ Wait
    \/ TriggerShutdown

Spec == Init /\ [][Next]_vars

\* The monitor task is scheduled whenever it can take a step, the block source
\* answers every call, the mutex is given to the monitor if it keeps becoming
\* free, and the other components give the mutex back.
FairSpec ==
    /\ Spec
    /\ WF_vars(MonitorChain)
    /\ WF_vars(PollBestTip)
    /\ SF_vars(LockDbm)
    /\ WF_vars(StoreLastKnownBlock)
    /\ WF_vars(Wait)
    /\ WF_vars(OtherUnlock)

\* The calls of the codec, in any order.
CodecNext ==
    \/ Encrypt
    \/ Decrypt
    \/ DecryptBlob
    \/ Sign
    \/ RecoverPk
    \/ Verify
    \/ Return

CodecSpec == Init /\ [][CodecNext]_vars

(***************************************************************************)
(* Properties.                                                             *)
(***************************************************************************)
\* The monitor is between two calls of poll_best_tip.
Observable == pc \in {"init", "wait", "done"}

\* The step in which a poll gets its answer, and that answer's outcome.
Polled(outcome) ==
    pc = "polling" /\ pc' # "polling" /\ last_poll'.outcome = outcome

\* The callbacks of the last poll, in call order.
PollConnected ==
    SubSeq(listener.connected_blocks, last_poll.nconn + 1,
           Len(listener.connected_blocks))
PollDisconnected ==
    SubSeq(listener.disconnected_blocks, last_poll.ndisc + 1,
           Len(listener.disconnected_blocks))

Persisted == dbm.last_known_block = block_hash(last_known_block_header)

\* C1, as stated: in every state between calls of poll_best_tip, the one right
\* after ChainMonitor::new included, the persisted hash is the hash of
\* last_known_block_header.
C1_PersistedAlways == Observable => Persisted

\* C1, amended: between calls of poll_best_tip the persisted hash is the hash
\* of last_known_block_header once an Advanced poll has happened; until the
\* first Advanced poll the store is left as it was constructed.
C1_PersistedOnceAdvanced ==
    /\ [](Observable /\ last_poll.advanced => Persisted)
    /\ [][~last_poll'.advanced => dbm'.last_known_block = dbm.last_known_block]_vars

\* C1: a Regressed poll after an Advanced one, the store holding the tip.
C1_Witness ==
    /\ pc = "wait"
    /\ last_poll.advanced
    /\ last_poll.outcome = "Worse"
    /\ Persisted

\* C2: after an Advanced poll whose new tip is one block on top of the known
\* tip, the header is the new tip, its hash is persisted, and the subscriber
\* got exactly that block connected and none disconnected.
C2_AdvanceOneBlock ==
    (/\ pc = "wait"
     /\ last_poll.outcome = "Better"
     /\ last_poll.header.prev_blockhash = last_poll.old_header.block_hash)
    => /\ last_known_block_header = last_poll.header
       /\ dbm.last_known_block = last_poll.header.block_hash
       /\ PollConnected = <<last_poll.header.block_hash>>
       /\ PollDisconnected = <<>>

\* C3: a failed write (or a mutex that cannot be taken) after an Advanced
\* outcome does not end the monitor: it is never left panicked.
C3_StoreFailureSurvived == last_poll.outcome = "Better" => pc # "panicked"

\* The blocks above the tip the monitor was constructed with, on the branch of h.
NewBlocksTo(h) == {b \in Range(PathTo(h)) : b > InitHeight + 1}

\* s lists blocks ancestor first: no later entry is an ancestor of an earlier one.
AncestorFirst(s) ==
    \A i, j \in 1..Len(s) :
        i < j => blocks[s[i]].height < blocks[s[j]].height

\* C4: when the header has been set to a new tip and persisted, the
\* subscriber has been given, ancestor first, every block up to that tip, and
\* the disconnection of every block the known tip had and the new one has not.
C4_DeliveredBeforePersisted ==
    (/\ pc = "wait"
     /\ last_poll.outcome = "Better")
    => /\ NewBlocksTo(block_hash(last_known_block_header))
              \subseteq Range(listener.connected_blocks)
       /\ AncestorFirst(PollConnected)
       /\ (Range(PathTo(last_poll.old_header.block_hash))
              \ Range(PathTo(block_hash(last_known_block_header))))
              \subseteq Range(listener.disconnected_blocks)

\* C5: a poll that ends Regressed leaves the header, the store and the
\* subscriber as they were, goes to the wait with no write pending, and its
\* candidate has no more chainwork than the header.
C5_RegressedFrame ==
    [][Polled("Worse") =>
        /\ last_known_block_header' = last_known_block_header
        /\ dbm' = dbm
        /\ listener' = listener
        /\ pc' = "wait"
        /\ last_poll'.header.chainwork <= last_known_block_header.chainwork]_vars

\* C5: a Regressed poll on a store that holds no last known block.
C5_Witness ==
    /\ pc = "wait"
    /\ last_poll.outcome = "Worse"
    /\ dbm.last_known_block = NoBlock
    /\ listener.connected_blocks = <<>>

\* C6: a poll that ends Unchanged leaves the header, the store and the
\* subscriber as they were and goes to the wait, so that another such poll
\* starts from the same state.
C6_UnchangedFrame ==
    [][Polled("Common") =>
        /\ last_known_block_header' = last_known_block_header
        /\ dbm' = dbm
        /\ listener' = listener
        /\ new_best' = new_best
        /\ spv_client' = spv_client
        /\ pc' = "wait"]_vars

\* C6: two Unchanged polls in a row.
C6_Witness ==
    /\ pc = "wait"
    /\ last_poll.outcome = "Common"
    /\ last_poll.prev_outcome = "Common"

\* C7: a poll that fails leaves the header, the store and the subscriber as
\* they were and goes to the wait as an Unchanged poll does; the monitor is not
\* stopped by it: from the wait it polls again unless the signal is set.
C7_FailedPollFrame ==
    /\ [][Polled("Err") =>
            /\ last_known_block_header' = last_known_block_header
            /\ dbm' = dbm
            /\ listener' = listener
            /\ pc' = "wait"]_vars
    /\ [](last_poll.outcome = "Err" =>
            /\ pc \in {"wait", "polling", "done"}
            /\ pc = "done" => shutdown_signal)
    /\ [][last_poll.outcome = "Err" /\ pc = "wait" /\ ~shutdown_signal /\ pc' # pc
            => pc' = "polling"]_vars

\* C7: a failed poll after a failed poll, the monitor polling again.
C7_Witness ==
    /\ pc = "polling"
    /\ last_poll.outcome = "Err"
    /\ last_poll.prev_outcome = "Err"

\* A poll starts.
PollStarts == pc # "polling" /\ pc' = "polling"

\* C8, as stated: once the signal is set no poll starts, wherever it was set.
C8_NoPollAfterSignal == [][shutdown_signal => ~PollStarts]_vars

\* C8, amended: once the signal is set, the only poll that starts is the first
\* one of monitor_chain (the signal was set before monitor_chain was entered);
\* the loop ends at the wait that follows the poll in progress, and only there.
C8_NoNewIterationAfterSignal ==
    /\ [][shutdown_signal /\ PollStarts => pc = "init"]_vars
    /\ [][shutdown_signal /\ pc = "wait" /\ pc' # pc => pc' = "done"]_vars
    /\ [][pc' = "done" /\ pc # "done" => pc = "wait" /\ shutdown_signal]_vars

\* C8: the loop has ended after an Advanced poll that was persisted.
C8_Witness ==
    /\ pc = "done"
    /\ last_poll.outcome = "Better"
    /\ Persisted

\* The last poll found the known tip replaced by a branch of two blocks that
\* forks at its parent.
Reorg2 ==
    LET old == last_poll.old_header
        new == last_poll.header
    IN /\ last_poll.outcome = "Better"
       /\ new.height = old.height + 1
       /\ new.prev_blockhash # old.block_hash
       /\ blocks[new.prev_blockhash].prev_blockhash = old.prev_blockhash

\* C9: after a poll that finds such a reorganization, the header is the new
\* branch's head, its hash is persisted, the subscriber got exactly the two
\* new blocks connected, ancestor first, and exactly the old tip disconnected.
C9_Reorg ==
    (pc = "wait" /\ Reorg2)
    => /\ last_known_block_header = last_poll.header
       /\ dbm.last_known_block = last_poll.header.block_hash
       /\ PollConnected = <<last_poll.header.prev_blockhash,
                            last_poll.header.block_hash>>
       /\ PollDisconnected = <<last_poll.old_header.block_hash>>

\* C10: the monitor holds the mutex of the store only while it writes: not
\* while it awaits the poll, not in the wait, not after it ended.
C10_LockOnlyForWrite == dbm.lock = "monitor" => pc = "store"

\* C10: the monitor awaits a poll after a write, another component holding
\* the mutex.
C10_Witness ==
    /\ pc = "polling"
    /\ last_poll.advanced
    /\ Persisted
    /\ dbm.lock = "other"

\* C11: decrypt of what encrypt returned for a transaction, under the same
\* dispute txid, succeeds and returns that transaction.
C11_RoundTrip ==
    (codec.op = "decrypt" /\ codec.secret = codec.encrypted_with)
    => codec.result = [ok |-> TRUE, tx |-> codec.message, err |-> "none"]

\* C11: a transaction with a payload went through encrypt and decrypt.
C11_Witness ==
    /\ codec.op = "decrypt"
    /\ codec.secret = codec.encrypted_with
    /\ Len(codec.message.output) >= 2
    /\ codec.result.ok
    /\ codec.encrypted_blob # serialize(codec.message)

\* The tag of a blob verifies under the key derived from a dispute txid.
TagVerifies(blob, secret) ==
    /\ Len(blob) >= 1
    /\ Last(blob) = poly1305(chacha20(sha256_hash(secret), Nonce, 0),
                             SubSeq(blob, 1, Len(blob) - 1))

\* What an authentic blob holds parses as a transaction.
Parses(blob, secret) ==
    deserialize(chacha20_open(sha256_hash(secret), Nonce,
                              SubSeq(blob, 1, Len(blob) - 1))).ok

\* C13: decrypt returns the AED error exactly when the tag does not verify
\* under the key of the given dispute txid, the Encode error exactly when the
\* tag verifies and the plaintext does not parse, and a transaction otherwise.
C13_ErrorsDistinguished ==
    codec.op \in {"decrypt", "decrypt_blob"}
    => LET blob   == codec.encrypted_blob
           secret == codec.secret
           r      == codec.result
       IN /\ r.err = "AED" <=> ~TagVerifies(blob, secret)
          /\ r.err = "Encode" <=> TagVerifies(blob, secret) /\ ~Parses(blob, secret)
          /\ r.ok <=> TagVerifies(blob, secret) /\ Parses(blob, secret)
          /\ r.ok <=> r.err = "none"

\* C13: an authentic blob that holds no transaction, refused as such.
C13_Witness ==
    /\ codec.op = "decrypt_blob"
    /\ codec.result.err = "Encode"
    /\ TagVerifies(codec.encrypted_blob, codec.secret)

\* C14: verify returns a boolean, TRUE exactly when recover_pk succeeds with
\* the expected key, FALSE when recovery fails or gives another key.
C14_VerifyTotal ==
    codec.op = "verify"
    => LET r == recover_pk(codec.msg, codec.sig) IN
       /\ codec.result \in BOOLEAN
       /\ codec.result <=> (r.ok /\ r.pk = codec.pk)
       /\ ~r.ok => codec.result = FALSE

\* C14: a signature that does not decode, verified as false.
C14_Witness ==
    /\ codec.op = "verify"
    /\ codec.sig = BadSig
    /\ codec.result = FALSE

\* monitor_chain has ended: the loop was left, or the task panicked.
Ended == pc \in {"done", "panicked"}

\* C16: once the signal is set, monitor_chain ends; the signal stays set, and
\* a wait that starts with the signal set ends the loop instead of sleeping.
C16_ShutdownTerminates ==
    /\ shutdown_signal ~> Ended
    /\ [][shutdown_signal => shutdown_signal']_vars
    /\ [][shutdown_signal /\ pc = "wait" /\ pc' # pc => pc' = "done"]_vars

\* C16: the loop was left after the signal was set during a poll.
C16_Witness ==
    /\ pc = "done"
    /\ shutdown_signal
    /\ last_poll.outcome # "None"

\* C17: when monitor_chain has ended, the last Advanced iteration is not half
\* applied: the header it assigned is the one whose hash is persisted.
C17_NoHalfAppliedIteration == (Ended /\ last_poll.advanced) => Persisted

\* C18: the persisted hash is absent, or the hash of the header, or (while a
\* write is pending or has failed) the hash of the header before it; the store
\* is written only in the Better arm, with the hash of the header just assigned.
C18_DurableNeverAhead ==
    /\ [](\/ dbm.last_known_block = NoBlock
          \/ Persisted
          \/ /\ pc \in {"lock", "store", "panicked"}
             /\ dbm.last_known_block = block_hash(last_poll.old_header))
    /\ [][dbm'.last_known_block # dbm.last_known_block =>
            /\ pc = "store"
            /\ last_poll.outcome = "Better"
            /\ dbm'.last_known_block = block_hash(last_known_block_header)]_vars

\* C18: the header is ahead of the store: the write of an Advanced poll failed
\* and the store keeps the hash of the header before it.
C18_Witness ==
    /\ pc = "panicked"
    /\ dbm.last_known_block # NoBlock
    /\ dbm.last_known_block = block_hash(last_poll.old_header)
    /\ ~Persisted

\* C19: the header changes only in a poll that ends Advanced, and every change
\* gives it strictly more chainwork.
C19_ChainworkGrows ==
    [][last_known_block_header' # last_known_block_header =>
        /\ Polled("Better")
        /\ last_known_block_header'.chainwork > last_known_block_header.chainwork]_vars

\* C20: after every poll_best_tip the header of the monitor is the tip the
\* client tracks, and a Regressed candidate has no more chainwork than it.
C20_SameTipAsClient ==
    Observable =>
        /\ last_known_block_header = spv_client.chain_tip
        /\ last_poll.outcome = "Worse" =>
               last_poll.header.chainwork <= last_known_block_header.chainwork

====
